---- MODULE Spec2Model ----
(***************************************************************************)
(* Model of the SVG-to-TGS Telegram bot of src/main.py.                    *)
(*                                                                         *)
(* The bot runs on one asyncio event loop.  Update handlers are run one    *)
(* after the other by the Application (run(), main.py 656-674, builds it   *)
(* with the default, non-concurrent update processing), so at most one     *)
(* handler is executing; the debounce tasks the document handler creates   *)
(* with asyncio.create_task run beside it and interleave with it, and with *)
(* each other, at every await.  Each action below is one handler or task   *)
(* from one await to the next.                                             *)
(*                                                                         *)
(* Time is counted in the unit of the debounce sleep.  The replies a       *)
(* handler awaits return within the instant they were sent; the awaits of  *)
(* a flush (download, sends, edits) may take any time.  A sleeping task    *)
(* whose delay is over is woken before the clock advances again.           *)
(***************************************************************************)
EXTENDS Integers, Sequences, FiniteSets, TLC

\* ---- bounds of the model
NumUsers == 1
MaxDocs == 2
MaxRecipients == 11
MaxBanned == 2

\* ---- program constants
\* D: the seconds of the debounce sleep; the clock of the model ticks in
\* seconds.  ADMIN_ID: the id the environment configures.
D == 2
ADMIN_ID == 1
MAX_FILE_SIZE == 5 * 1024 * 1024

Users == 1..NumUsers
None == 0
AgeCap == D + 1

VARIABLES
    users_tbl,        \* DatabaseManager: the users table, user_id -> is_banned
    conversions,      \* DatabaseManager: the conversions table, rows <<user_id, file_count>>
    LOTTIE_AVAILABLE, \* whether the lottie import succeeded when the module was loaded
    user_batches,     \* TelegramBot.user_batches: user_id -> the batch dict (an object id)
    batches,          \* the batch dicts ever created, by object id
    tasks,            \* the tasks made by asyncio.create_task, by task id
    msgs,             \* the status messages the bot posted: the texts each has shown
    tmpdir,           \* the temporary files that exist (made and not unlinked)
    handler,          \* the update handler being run, and where it is suspended
    bc,               \* the locals of the broadcast_command call being run, or of the last one
    cv,               \* the file the converter is given, and what it made of it
    reply,            \* the last reply of a command handler
    accepted,         \* history: accepted[d] is the user whose submission is document d
    rejected,         \* history: the submissions that were refused, in order: by whom, and
                      \* after how many accepted documents
    age,              \* history: time since the last accepted document of the user's pending
                      \* batch (capped at AgeCap; AgeCap when the user has none pending)
    run               \* history: the last documents of the user's pending batch that
                      \* arrived within the delay of one another (an arrival in the
                      \* instant the delay ends, before the timer task has run, is
                      \* within it)

vars == <<users_tbl, conversions, LOTTIE_AVAILABLE, user_batches, batches, tasks,
          msgs, tmpdir, handler, bc, cv, reply, accepted, rejected,
          age, run>>

dbVars == <<users_tbl, conversions, LOTTIE_AVAILABLE, cv, reply>>
batchVars == <<user_batches, batches, tasks, msgs, tmpdir>>
histVars == <<accepted, rejected, age, run>>

Min(a, b) == IF a < b THEN a ELSE b
Range(s) == {s[k] : k \in DOMAIN s}

\* ---------------------------------------------------------------- database

\* DatabaseManager.is_banned
is_banned(tbl, u) == u \in DOMAIN tbl /\ tbl[u] = 1

\* DatabaseManager.add_user: INSERT OR REPLACE writes a whole new row, and the
\* statement gives no is_banned, so the column takes its default, 0.
add_user(tbl, u) == [v \in DOMAIN tbl \cup {u} |-> IF v = u THEN 0 ELSE tbl[v]]

\* DatabaseManager.ban_user and unban_user: an UPDATE of the user's row, if
\* there is one; they return whether a row was updated.
ban_user(tbl, u) == IF u \in DOMAIN tbl THEN [tbl EXCEPT ![u] = 1] ELSE tbl
unban_user(tbl, u) == IF u \in DOMAIN tbl THEN [tbl EXCEPT ![u] = 0] ELSE tbl
RowFound(tbl, u) == u \in DOMAIN tbl

\* DatabaseManager.get_stats: total, banned and active users, total conversions
get_stats(tbl, rows) ==
    LET total_users == Cardinality(DOMAIN tbl)
        banned_users == Cardinality({u \in DOMAIN tbl : tbl[u] = 1})
    IN <<total_users, banned_users, total_users - banned_users, Len(rows)>>

\* DatabaseManager.log_conversion
log_conversion(rows, u, file_count) == Append(rows, <<u, file_count>>)

\* The rows of a table come back in key order.
RECURSIVE SortedSeq(_)
SortedSeq(S) ==
    IF S = {} THEN <<>>
    ELSE LET m == CHOOSE x \in S : \A y \in S : x <= y
         IN <<m>> \o SortedSeq(S \ {m})

\* Every user of the table is listed, banned or not.
get_all_user_ids_unfiltered(tbl) == SortedSeq(DOMAIN tbl)

\* DatabaseManager.get_all_user_ids
get_all_user_ids(tbl) == SortedSeq({u \in DOMAIN tbl : tbl[u] = 0})

\* ---------------------------------------------------------------- converter

\* What a downloaded file can be: its size, whether it reads as UTF-8 text,
\* whether the text holds '<svg', and what it draws.
Contents ==
    [size : {MAX_FILE_SIZE, MAX_FILE_SIZE + 1}, readable : BOOLEAN, has_svg : BOOLEAN,
     body : {"circle", "square"}]

\* SVGToTGSConverter.validate_svg_file
validate_svg_file(c) ==
    IF c.size > MAX_FILE_SIZE THEN FALSE
    ELSE IF ~c.readable THEN FALSE
    ELSE IF ~c.has_svg THEN FALSE
    ELSE TRUE

\* What the two tiers can do on one file.  The lottie import and export raise,
\* leave no output file, leave an empty one, or write the animation; the
\* fallback's open and write raise, leave an empty file, or write the payload.
TierOutcomes == [primary : {"ok", "empty", "missing", "raise"}, fallback : {"ok", "empty", "raise"}]

\* What the output path holds.
NoFile == [kind |-> "missing"]
EmptyFile == [kind |-> "empty"]

\* gzip.compress(json.dumps(data).encode()) written to the output path, and
\* json.loads(gzip.decompress(...)) of such a file
GzipJson(data) == [kind |-> "gzip", json |-> data]
Decompress(f) == f.json

\* export_tgs(import_svg(svg_path)), 237-250: the animation of what the file
\* draws, 512 x 512, 30 frames at 30 per second
LottieExport(c) ==
    GzipJson([fr |-> 30, ip |-> 0, op |-> 30, w |-> 512, h |-> 512,
              layers |-> <<[nm |-> c.body]>>])

\* _create_fallback_tgs 280-325: the Lottie document the fallback writes
lottie_data ==
    [v |-> "5.5.2", fr |-> 30, ip |-> 0, op |-> 30, w |-> 512, h |-> 512,
     nm |-> "SVG Animation", ddd |-> 0, assets |-> <<>>,
     layers |-> <<[ddd |-> 0, ind |-> 1, ty |-> 4, nm |-> "SVG Layer", sr |-> 1,
                   ao |-> 0, shapes |-> <<"rc", "fl">>, ip |-> 0, op |-> 30,
                   st |-> 0, bm |-> 0]>>]

\* The fallback names its layer after what the file draws.
_create_fallback_tgs_embedding(c, o) ==
    IF ~c.readable \/ o.fallback = "raise" THEN [success |-> FALSE, out |-> NoFile]
    ELSE IF o.fallback = "empty" THEN [success |-> FALSE, out |-> EmptyFile]
    ELSE [success |-> TRUE,
          out |-> GzipJson([lottie_data EXCEPT !.layers[1].nm = c.body])]

\* SVGToTGSConverter._create_fallback_tgs: reads the SVG text (and does nothing
\* with it), writes the document, and succeeds if the file is there with content
_create_fallback_tgs(c, o) ==
    IF ~c.readable \/ o.fallback = "raise" THEN [success |-> FALSE, out |-> NoFile]
    ELSE IF o.fallback = "empty" THEN [success |-> FALSE, out |-> EmptyFile]
    ELSE [success |-> TRUE, out |-> GzipJson(lottie_data)]

\* The result of convert_svg_to_tgs when the fallback ran after the tiers `before`.
ThroughFallback(before, c, o) ==
    [success |-> _create_fallback_tgs(c, o).success,
     tiers |-> before \o <<"fallback">>,
     out |-> _create_fallback_tgs(c, o).out]

\* The failure of the primary tier is returned as the outcome.
convert_svg_to_tgs_primary_only(lottie, c, o) ==
    IF lottie
    THEN IF o.primary = "ok"
         THEN [success |-> TRUE, tiers |-> <<"primary">>, out |-> LottieExport(c)]
         ELSE [success |-> FALSE, tiers |-> <<"primary">>, out |-> NoFile]
    ELSE ThroughFallback(<<>>, c, o)

\* SVGToTGSConverter.convert_svg_to_tgs: whether it succeeded, the tiers it ran,
\* in order, and what the output path holds
convert_svg_to_tgs(lottie, c, o) ==
    IF lottie
    THEN IF o.primary = "raise" THEN ThroughFallback(<<"primary">>, c, o)
         ELSE IF o.primary \in {"missing", "empty"} THEN ThroughFallback(<<"primary">>, c, o)
         ELSE [success |-> TRUE, tiers |-> <<"primary">>, out |-> LottieExport(c)]
    ELSE ThroughFallback(<<>>, c, o)

\* _process_user_batch 590-607: what the loop makes of a downloaded file c on
\* which the tiers do o
Processed(lottie, c, o) ==
    IF ~validate_svg_file(c) THEN "invalid"
    ELSE IF convert_svg_to_tgs(lottie, c, o).success THEN "converted"
    ELSE "failed"

\* No file is with the converter on its own.
NoConversion == [stage |-> "none"]

\* ---------------------------------------------------------------- tasks

\* A task made by create_task(_process_batch_after_delay(user_id, context)).
\* st: sleeping (in asyncio.sleep), flushing (in _process_user_batch), cancelled, done.
\* batch, progress_msg, i (the for loop's place in files), j (its place in
\* converted_files), converted_files and temp_files are the locals of
\* _process_user_batch.  History, kept while the flush runs: failed_at (the call
\* that raised into the batch-wide except clause), invalid (the documents that
\* validate_svg_file refused), files_at_flush (what the list
\* held when the flush took it), age_at_flush and run_at_flush (age and run of
\* the user at that moment).
NewTask(u) ==
    [user |-> u, st |-> "sleeping", rem |-> D, must_cancel |-> FALSE,
     batch |-> None, progress_msg |-> None, pc |-> "sleep", i |-> 0, j |-> 0,
     converted_files |-> <<>>, temp_files |-> <<>>, invalid |-> <<>>,
     failed_at |-> "", files_at_flush |-> <<>>, age_at_flush |-> 0, run_at_flush |-> <<>>]

\* A task that is over: its frame is gone; what stays is whose it was, how it
\* ended and which batch dict it took.
Ended(r, how) ==
    [NewTask(r.user) EXCEPT !.st = how, !.pc = "end", !.rem = 0, !.batch = r.batch]

\* Task.cancel(): a task waiting in its sleep never runs again, whether or not the
\* delay is over; a task waiting in a later await gets CancelledError there; a
\* finished task is left alone.
CancelTask(ts, t) ==
    IF ts[t].st = "sleeping" THEN [ts EXCEPT ![t].st = "cancelled"]
    ELSE IF ts[t].st = "flushing" THEN [ts EXCEPT ![t].must_cancel = TRUE]
    ELSE ts

\* The timer of the batch is left running when a new one is started.
CancelExistingSkipped(ts, timer_task) == ts

\* handle_document 541-543: cancel the batch's timer task, if it has one
CancelExisting(ts, timer_task) ==
    IF timer_task # None THEN CancelTask(ts, timer_task) ELSE ts

\* handle_document 541-548: cancel the old timer and start a new one, for batch dict b
Reschedule(u, b, bs, ts) ==
    [tasks |-> Append(CancelExisting(ts, bs[b].timer_task), NewTask(u)),
     batches |-> [bs EXCEPT ![b].timer_task = Len(ts) + 1]]

\* ---------------------------------------------------------------- handle_document

\* The list is replaced by the new document instead of growing by it.
AddFileReplacing(bs, b, d) == [bs EXCEPT ![b].files = <<d>>]

\* The document is not put in the list.
AddFileDropped(bs, b, d) == bs

\* handle_document 531-535: append the document to the list of batch dict b
AddFile(bs, b, d) == [bs EXCEPT ![b].files = Append(@, d)]

Idle == [pc |-> "idle", user |-> None]

\* The documents users send: whether file_name ends in .svg, whether mime_type
\* is image/svg+xml, and the declared file_size.
Doc(name, mime, size) == [svg_name |-> name, svg_mime |-> mime, file_size |-> size]
Documents ==
    {Doc(TRUE, TRUE, MAX_FILE_SIZE), Doc(TRUE, FALSE, MAX_FILE_SIZE),
     Doc(FALSE, TRUE, MAX_FILE_SIZE), Doc(FALSE, FALSE, MAX_FILE_SIZE),
     Doc(TRUE, TRUE, MAX_FILE_SIZE + 1)}

\* The declared size is not looked at.
VerdictIgnoringSize(tbl, u, document) ==
    IF is_banned(tbl, u) THEN "banned"
    ELSE IF ~(document.svg_name \/ document.svg_mime) THEN "not_svg"
    ELSE "accepted"

\* handle_document 494-519: what the checks before the batch decide
Verdict(tbl, u, document) ==
    IF is_banned(tbl, u) THEN "banned"
    ELSE IF ~(document.svg_name \/ document.svg_mime) THEN "not_svg"
    ELSE IF document.file_size > MAX_FILE_SIZE THEN "too_large"
    ELSE "accepted"

\* handle_document 490-548, to its return or to the await of the "Please wait..."
\* reply.  A rejected submission is answered and the handler returns: nothing is
\* done after that reply, whether it is sent or raises.
handle_document(u, document) ==
    /\ handler.pc = "idle"
    /\ Len(accepted) + Len(rejected) < MaxDocs
    /\ LET v == Verdict(users_tbl, u, document)
       IN /\ users_tbl' = IF v = "banned" THEN users_tbl ELSE add_user(users_tbl, u)
          /\ IF v # "accepted"
             THEN /\ rejected' = Append(rejected, <<u, Len(accepted)>>)
                  /\ UNCHANGED <<user_batches, batches, tasks, handler, accepted, age, run>>
             ELSE LET d == Len(accepted) + 1
                      fresh == u \notin DOMAIN user_batches
                      b == IF fresh THEN Len(batches) + 1 ELSE user_batches[u]
                      bs1 == IF fresh
                             THEN Append(batches, [files |-> <<>>, timer_task |-> None,
                                                   progress_msg |-> None])
                             ELSE batches
                      bs2 == AddFile(bs1, b, d)
                      next == Reschedule(u, b, bs2, tasks)
                  IN /\ accepted' = Append(accepted, u)
                     /\ UNCHANGED rejected
                     /\ run' = [run EXCEPT ![u] = IF age[u] <= D THEN Append(@, d) ELSE <<d>>]
                     /\ age' = [age EXCEPT ![u] = 0]
                     /\ user_batches' = [w \in DOMAIN user_batches \cup {u} |->
                                           IF w = u THEN b ELSE user_batches[w]]
                     /\ IF Len(bs2[b].files) = 1
                        THEN /\ handler' = [pc |-> "reply_wait", user |-> u]
                             /\ batches' = bs2
                             /\ UNCHANGED tasks
                        ELSE /\ handler' = Idle
                             /\ batches' = next.batches
                             /\ tasks' = next.tasks
    /\ UNCHANGED <<conversions, LOTTIE_AVAILABLE, cv, reply, msgs, tmpdir, bc>>

\* handle_document 539-548: the "Please wait..." reply returns, or raises.
PleaseWaitReturns(ok) ==
    /\ handler.pc = "reply_wait"
    /\ handler' = Idle
    /\ LET u == handler.user
       IN IF ~ok
          THEN UNCHANGED <<batches, tasks, msgs>>
          ELSE /\ msgs' = Append(msgs, <<"wait">>)
               /\ IF u \notin DOMAIN user_batches
                  THEN UNCHANGED <<batches, tasks>>
                  ELSE LET b == user_batches[u]
                           bs1 == [batches EXCEPT ![b].progress_msg = Len(msgs) + 1]
                           next == Reschedule(u, b, bs1, tasks)
                       IN /\ batches' = next.batches
                          /\ tasks' = next.tasks
    /\ UNCHANGED <<dbVars, user_batches, tmpdir, bc, histVars>>

\* ---------------------------------------------------------------- time

\* One unit of time passes: every sleeping task is one unit nearer its wake-up.
Tick ==
    /\ handler.pc = "idle"
    /\ \A t \in DOMAIN tasks : tasks[t].st = "sleeping" => tasks[t].rem > 0
    /\ tasks' = [t \in DOMAIN tasks |->
                   IF tasks[t].st = "sleeping" THEN [tasks[t] EXCEPT !.rem = @ - 1]
                   ELSE tasks[t]]
    /\ age' = [u \in Users |->
                 IF u \in DOMAIN user_batches THEN Min(age[u] + 1, AgeCap) ELSE age[u]]
    /\ UNCHANGED <<dbVars, user_batches, batches, msgs, tmpdir, handler, bc, accepted, rejected,
                   run>>

\* ---------------------------------------------------------------- the flush

\* The entry is left in the map while its flush runs.
TakeBatchKept(ub, u) == ub

\* _process_user_batch 567: del self.user_batches[user_id]
TakeBatch(ub, u) == [w \in DOMAIN ub \ {u} |-> ub[w]]

\* Message.edit_text on a status message
EditText(ms, m, text) == [ms EXCEPT ![m] = Append(@, text)]

SvgFile(d) == [doc |-> d, ext |-> "svg"]
TgsFile(d) == [doc |-> d, ext |-> "tgs"]

\* _process_user_batch 637-643: the finally clause (it unlinks every name in
\* temp_files: see FlushStep), and the task is over
Finally(r) == Ended(r, "done")

\* CancelledError raised at an await of the flush: it is no Exception, so only the
\* finally clause runs and the task ends cancelled.
Cancelled(r) == Ended(r, "cancelled")

\* _process_user_batch 632-635: the handler of the batch-wide try, entered
\* because the call `what` raised
ExceptPath(r, what) ==
    IF r.progress_msg # None THEN [r EXCEPT !.pc = "edit_error", !.failed_at = what]
    ELSE Finally(r)

\* _process_user_batch 613-630, entered: deliver, or report that nothing was converted
Deliver(r) ==
    IF r.converted_files # <<>> THEN [r EXCEPT !.pc = "send", !.j = 1]
    ELSE IF r.progress_msg # None THEN [r EXCEPT !.pc = "edit_none"]
    ELSE Finally(r)

\* _process_user_batch 609-611, after the loop
AfterLoop(r) ==
    IF r.progress_msg # None THEN [r EXCEPT !.pc = "edit_done"] ELSE Deliver(r)

\* _process_user_batch 576-580: the for statement takes the next element of the
\* list, if the list has one, and asks for its file.
NextDoc(r, files) ==
    IF r.i < Len(files)
    THEN [r EXCEPT !.i = r.i + 1, !.pc = "get_file"]
    ELSE AfterLoop(r)

\* The loop leaves at the first document that fails validation.
SkipDocBreaking(r, d, files) == AfterLoop([r EXCEPT !.invalid = Append(@, d)])

\* _process_user_batch 590-594: validation failed; `continue` to the next document
SkipDoc(r, d, files) == NextDoc([r EXCEPT !.invalid = Append(@, d)], files)

\* The list the flush iterates: the list object of the batch dict it took.
FilesOf(r) == batches[r.batch].files

\* A step of task t to the record nr, having made the temporary files `made`.
\* When the step ends the flush, the finally clause (637-643) has unlinked the
\* names in temp_files.
FlushStep(t, nr, made) ==
    /\ tasks' = [tasks EXCEPT ![t] = nr]
    /\ tmpdir' = IF nr.pc = "end"
                 THEN (tmpdir \cup made) \ Range(tasks[t].temp_files)
                 ELSE tmpdir \cup made

\* _process_batch_after_delay 550-555 and _process_user_batch 557-580: the sleep
\* is over; the task takes the user's batch out of the map and asks for the
\* first file.
TimerFires(t) ==
    /\ tasks[t].st = "sleeping"
    /\ tasks[t].rem = 0
    /\ LET u == tasks[t].user
       IN IF u \notin DOMAIN user_batches
          THEN /\ tasks' = [tasks EXCEPT ![t] = Ended(@, "done")]
               /\ UNCHANGED <<user_batches, age, run>>
          ELSE LET b == user_batches[u]
                   r == [tasks[t] EXCEPT !.st = "flushing", !.batch = b,
                                         !.progress_msg = batches[b].progress_msg,
                                         !.files_at_flush = batches[b].files,
                                         !.age_at_flush = age[u],
                                         !.run_at_flush = run[u]]
               IN /\ user_batches' = TakeBatch(user_batches, u)
                  /\ tasks' = [tasks EXCEPT ![t] =
                                 IF batches[b].files = <<>> THEN Ended(r, "done")
                                 ELSE NextDoc(r, batches[b].files)]
                  /\ age' = [w \in Users |->
                               IF w \in DOMAIN user_batches' THEN age[w] ELSE AgeCap]
                  /\ run' = [w \in Users |->
                               IF w \in DOMAIN user_batches' THEN run[w] ELSE <<>>]
    /\ UNCHANGED <<dbVars, batches, msgs, tmpdir, handler, bc, accepted, rejected>>

\* _process_user_batch 580-588: get_file returns, or raises; the two temporary
\* files are made (tmp: either NamedTemporaryFile call may raise) and the download starts.
GetFileReturns(t, ok) ==
    /\ tasks[t].st = "flushing"
    /\ tasks[t].pc = "get_file"
    /\ LET r == tasks[t]
           d == FilesOf(r)[r.i]
       IN IF r.must_cancel THEN FlushStep(t, Cancelled(r), {})
          ELSE IF ~ok THEN FlushStep(t, ExceptPath(r, "get_file"), {})
          ELSE \E tmp \in {"ok", "svg_raises", "tgs_raises"} :
                 IF tmp = "svg_raises" THEN FlushStep(t, ExceptPath(r, "tempfile"), {})
                 ELSE IF tmp = "tgs_raises"
                      THEN FlushStep(t, ExceptPath(r, "tempfile"), {SvgFile(d)})
                 ELSE FlushStep(t, [r EXCEPT !.temp_files = @ \o <<SvgFile(d), TgsFile(d)>>,
                                             !.pc = "download"],
                                {SvgFile(d), TgsFile(d)})
    /\ UNCHANGED <<dbVars, user_batches, batches, msgs, handler, bc, histVars>>

\* _process_user_batch 588-607: the download returns, or raises; the file (c) is
\* validated and converted (neither awaits anything; o is what the tiers do on
\* it), and the loop goes on.
DownloadReturns(t, ok) ==
    /\ tasks[t].st = "flushing"
    /\ tasks[t].pc = "download"
    /\ LET r == tasks[t]
           d == FilesOf(r)[r.i]
       IN IF r.must_cancel THEN FlushStep(t, Cancelled(r), {})
          ELSE IF ~ok THEN FlushStep(t, ExceptPath(r, "download"), {})
          ELSE \E made \in {Processed(LOTTIE_AVAILABLE, c, o) : c \in Contents, o \in TierOutcomes} :
                 IF made = "invalid" THEN FlushStep(t, SkipDoc(r, d, FilesOf(r)), {})
                 ELSE IF made = "converted"
                      THEN FlushStep(t, NextDoc([r EXCEPT !.converted_files = Append(@, d)],
                                                FilesOf(r)), {})
                 ELSE FlushStep(t, NextDoc(r, FilesOf(r)), {})
    /\ UNCHANGED <<dbVars, user_batches, batches, msgs, handler, bc, histVars>>

\* _process_user_batch 611-630: the edit to "Done" returns, or raises
EditDoneReturns(t, ok) ==
    /\ tasks[t].st = "flushing"
    /\ tasks[t].pc = "edit_done"
    /\ LET r == tasks[t]
       IN IF r.must_cancel THEN FlushStep(t, Cancelled(r), {}) /\ UNCHANGED msgs
          ELSE IF ~ok THEN FlushStep(t, ExceptPath(r, "edit"), {}) /\ UNCHANGED msgs
          ELSE /\ FlushStep(t, Deliver(r), {})
               /\ msgs' = EditText(msgs, r.progress_msg, "done")
    /\ UNCHANGED <<dbVars, user_batches, batches, handler, bc, histVars>>

\* _process_user_batch 615-627: send_document returns, or raises; after the last
\* one the conversion is logged.
SendDocumentReturns(t, ok) ==
    /\ tasks[t].st = "flushing"
    /\ tasks[t].pc = "send"
    /\ LET r == tasks[t]
       IN IF r.must_cancel THEN FlushStep(t, Cancelled(r), {}) /\ UNCHANGED conversions
          ELSE IF ~ok THEN FlushStep(t, ExceptPath(r, "send"), {}) /\ UNCHANGED conversions
          ELSE IF r.j < Len(r.converted_files)
               THEN FlushStep(t, [r EXCEPT !.j = r.j + 1], {}) /\ UNCHANGED conversions
          ELSE /\ FlushStep(t, Finally(r), {})
               /\ conversions' = log_conversion(conversions, r.user, Len(r.converted_files))
    /\ UNCHANGED <<users_tbl, LOTTIE_AVAILABLE, cv, reply, user_batches, batches, msgs, handler,
                   bc, histVars>>

\* _process_user_batch 628-630: the edit to "No files could be converted" returns, or raises
EditNoneReturns(t, ok) ==
    /\ tasks[t].st = "flushing"
    /\ tasks[t].pc = "edit_none"
    /\ LET r == tasks[t]
       IN IF r.must_cancel THEN FlushStep(t, Cancelled(r), {}) /\ UNCHANGED msgs
          ELSE IF ~ok THEN FlushStep(t, ExceptPath(r, "edit"), {}) /\ UNCHANGED msgs
          ELSE /\ FlushStep(t, Finally(r), {})
               /\ msgs' = EditText(msgs, r.progress_msg, "none")
    /\ UNCHANGED <<dbVars, user_batches, batches, handler, bc, histVars>>

\* _process_user_batch 632-643: the edit to "An error occurred" returns, or raises
\* out of the except clause; the finally clause runs in both cases.
EditErrorReturns(t, ok) ==
    /\ tasks[t].st = "flushing"
    /\ tasks[t].pc = "edit_error"
    /\ LET r == tasks[t]
       IN IF r.must_cancel THEN FlushStep(t, Cancelled(r), {}) /\ UNCHANGED msgs
          ELSE /\ FlushStep(t, Finally(r), {})
               /\ msgs' = IF ok THEN EditText(msgs, r.progress_msg, "error") ELSE msgs
    /\ UNCHANGED <<dbVars, user_batches, batches, handler, bc, histVars>>

\* ---------------------------------------------------------------- commands

\* stats_command 395, ban_command 415, unban_command 434, broadcast_command 453:
\* update.effective_user.id != ADMIN_ID
IsAdminAnyone(u) == TRUE
IsAdmin(u) == u = ADMIN_ID

\* A reply of a command handler: to whom, of which command, which text, and
\* the numbers in the text.
Reply(u, cmd, text, numbers) == [to |-> u, cmd |-> cmd, text |-> text, numbers |-> numbers]
NoReply == Reply(None, "", "", <<>>)

\* context.args of /ban and /unban: nothing, a word, or the decimal text of a user id.
DecimalText == <<"1", "2", "3", "4", "5", "6", "7", "8", "9">>
Args == {<<>>, <<"abc">>} \cup {<<DecimalText[k]>> : k \in 1..MaxBanned}

\* int(context.args[0]): the number, or ValueError
IsDecimal(word) == \E k \in DOMAIN DecimalText : DecimalText[k] = word
int(word) == CHOOSE k \in DOMAIN DecimalText : DecimalText[k] = word

\* start_command 353-372: the user is added, or written anew, and welcomed
start_command(u) ==
    /\ handler.pc = "idle"
    /\ users_tbl' = add_user(users_tbl, u)
    /\ reply' = Reply(u, "start", "welcome", <<>>)
    /\ UNCHANGED <<conversions, LOTTIE_AVAILABLE, cv, batchVars, handler, bc, histVars>>

\* stats_command 393-411
stats_command(u) ==
    /\ handler.pc = "idle"
    /\ reply' = IF ~IsAdmin(u) THEN Reply(u, "stats", "admin_required", <<>>)
                ELSE Reply(u, "stats", "statistics", get_stats(users_tbl, conversions))
    /\ UNCHANGED <<users_tbl, conversions, LOTTIE_AVAILABLE, cv, batchVars, handler, bc,
                   histVars>>

\* ban_command 413-430
ban_command(u, args) ==
    /\ handler.pc = "idle"
    /\ IF ~IsAdmin(u)
       THEN reply' = Reply(u, "ban", "admin_required", <<>>) /\ UNCHANGED users_tbl
       ELSE IF args = <<>>
       THEN reply' = Reply(u, "ban", "usage", <<>>) /\ UNCHANGED users_tbl
       ELSE IF ~IsDecimal(args[1])
       THEN reply' = Reply(u, "ban", "invalid", <<>>) /\ UNCHANGED users_tbl
       ELSE /\ users_tbl' = ban_user(users_tbl, int(args[1]))
            /\ reply' = Reply(u, "ban",
                              IF RowFound(users_tbl, int(args[1])) THEN "banned"
                              ELSE "not_found",
                              <<int(args[1])>>)
    /\ UNCHANGED <<conversions, LOTTIE_AVAILABLE, cv, batchVars, handler, bc, histVars>>

\* unban_command 432-449
unban_command(u, args) ==
    /\ handler.pc = "idle"
    /\ IF ~IsAdmin(u)
       THEN reply' = Reply(u, "unban", "admin_required", <<>>) /\ UNCHANGED users_tbl
       ELSE IF args = <<>>
       THEN reply' = Reply(u, "unban", "usage", <<>>) /\ UNCHANGED users_tbl
       ELSE IF ~IsDecimal(args[1])
       THEN reply' = Reply(u, "unban", "invalid", <<>>) /\ UNCHANGED users_tbl
       ELSE /\ users_tbl' = unban_user(users_tbl, int(args[1]))
            /\ reply' = Reply(u, "unban",
                              IF RowFound(users_tbl, int(args[1])) THEN "unbanned"
                              ELSE "not_found",
                              <<int(args[1])>>)
    /\ UNCHANGED <<conversions, LOTTIE_AVAILABLE, cv, batchVars, handler, bc, histVars>>

\* ---------------------------------------------------------------- broadcast_command

\* The locals of broadcast_command: user_ids, idx (the for loop's place in
\* user_ids), success_count, failed_count; status is what status_message has
\* shown; attempts is history: the recipients send_message was called for.
NoBroadcast ==
    [pc |-> "idle", user_ids |-> <<>>, idx |-> 0, success_count |-> 0,
     failed_count |-> 0, attempts |-> <<>>, status |-> <<>>]

\* broadcast_command 474-476: the for statement takes the next recipient, if
\* there is one, and sends to it; after the last one comes the final status.
NextRecipient(b) ==
    IF b.idx < Len(b.user_ids)
    THEN [b EXCEPT !.pc = "send", !.idx = b.idx + 1,
                   !.attempts = Append(@, b.user_ids[b.idx + 1])]
    ELSE [b EXCEPT !.pc = "final"]

\* A failed send is caught and not counted.
CountSendLost(b, ok) == IF ok THEN [b EXCEPT !.success_count = @ + 1] ELSE b

\* broadcast_command 475-480: the try around one send
CountSend(b, ok) ==
    IF ok THEN [b EXCEPT !.success_count = @ + 1]
    ELSE [b EXCEPT !.failed_count = @ + 1]

\* A failed send is counted and ends the loop.
AfterSendStopping(b, ok) ==
    IF ok THEN NextRecipient(CountSend(b, ok))
    ELSE [CountSend(b, ok) EXCEPT !.pc = "final"]

\* broadcast_command 474-480: one send is over, whatever came of it
AfterSend(b, ok) == NextRecipient(CountSend(b, ok))

\* broadcast_command 483-488: the text of the final status
FinalTally(b) ==
    [kind |-> "complete", sent |-> b.success_count, failed |-> b.failed_count,
     total |-> Len(b.user_ids)]

\* broadcast_command 451-472, to its return or to the await of the first status
\* reply.  A caller who is not the admin, or gives no text, is answered and the
\* handler returns.
broadcast_command(u, has_args) ==
    /\ handler.pc = "idle"
    /\ IF ~IsAdmin(u)
       THEN /\ reply' = Reply(u, "broadcast", "admin_required", <<>>)
            /\ UNCHANGED <<handler, bc>>
       ELSE IF ~has_args
       THEN /\ reply' = Reply(u, "broadcast", "usage", <<>>)
            /\ UNCHANGED <<handler, bc>>
       ELSE /\ handler' = [pc |-> "broadcast", user |-> u]
            /\ bc' = [NoBroadcast EXCEPT !.pc = "status",
                                         !.user_ids = get_all_user_ids(users_tbl)]
            /\ UNCHANGED reply
    /\ UNCHANGED <<users_tbl, conversions, LOTTIE_AVAILABLE, cv, batchVars, histVars>>

\* broadcast_command 470-476: the "Broadcasting to N users" reply returns.  The
\* replies to the admin, this one and the final edit, are taken to arrive:
\* nothing of the broadcast exists without the first, and no code can show a
\* tally the platform refuses.
BroadcastStatusReturns ==
    /\ bc.pc = "status"
    /\ bc' = NextRecipient([bc EXCEPT !.status =
                               <<[kind |-> "start", total |-> Len(bc.user_ids)]>>])
    /\ UNCHANGED <<dbVars, batchVars, handler, histVars>>

\* broadcast_command 474-480: send_message returns, or raises
BroadcastSendReturns(ok) ==
    /\ bc.pc = "send"
    /\ bc' = AfterSend(bc, ok)
    /\ UNCHANGED <<dbVars, batchVars, handler, histVars>>

\* broadcast_command 482-488: the edit to the final status returns
BroadcastFinalReturns ==
    /\ bc.pc = "final"
    /\ bc' = [bc EXCEPT !.pc = "done", !.status = Append(@, FinalTally(bc))]
    /\ handler' = Idle
    /\ UNCHANGED <<dbVars, batchVars, histVars>>

\* ---------------------------------------------------------------- specification

\* The users table is a file that outlives the process: the bot starts with
\* the rows earlier runs left in it.  The users who send documents have a row:
\* the platform lets a user write to a bot only after /start, which adds it
\* (start_command, 353-356); some of them may have been banned since.  The
\* lottie package is installed; the converter without it is SpecConvert's.
Init ==
    /\ users_tbl \in [Users -> {0, 1}]
    /\ conversions = <<>>
    /\ LOTTIE_AVAILABLE = TRUE
    /\ user_batches = <<>>
    /\ batches = <<>>
    /\ tasks = <<>>
    /\ msgs = <<>>
    /\ tmpdir = {}
    /\ handler = Idle
    /\ bc = NoBroadcast
    /\ cv = NoConversion
    /\ reply = NoReply
    /\ accepted = <<>>
    /\ rejected = <<>>
    /\ age = [u \in Users |-> AgeCap]
    /\ run = [u \in Users |-> <<>>]

Next ==
    \/ \E u \in Users, document \in Documents : handle_document(u, document)
    \/ \E ok \in BOOLEAN : PleaseWaitReturns(ok)
    \/ Tick
    \/ \E t \in DOMAIN tasks : TimerFires(t)
    \/ \E t \in DOMAIN tasks, ok \in BOOLEAN : GetFileReturns(t, ok)
    \/ \E t \in DOMAIN tasks, ok \in BOOLEAN : DownloadReturns(t, ok)
    \/ \E t \in DOMAIN tasks, ok \in BOOLEAN : EditDoneReturns(t, ok)
    \/ \E t \in DOMAIN tasks, ok \in BOOLEAN : SendDocumentReturns(t, ok)
    \/ \E t \in DOMAIN tasks, ok \in BOOLEAN : EditNoneReturns(t, ok)
    \/ \E t \in DOMAIN tasks, ok \in BOOLEAN : EditErrorReturns(t, ok)

Spec == Init /\ [][Next]_vars

\* The broadcast, over the users tables of up to MaxRecipients known users of
\* whom up to MaxBanned are banned.
InitBroadcast ==
    /\ \E n \in 0..MaxRecipients, banned \in SUBSET (1..MaxBanned) :
          users_tbl = [u \in 1..n |-> IF u \in banned THEN 1 ELSE 0]
    /\ conversions = <<>>
    /\ LOTTIE_AVAILABLE \in BOOLEAN
    /\ user_batches = <<>>
    /\ batches = <<>>
    /\ tasks = <<>>
    /\ msgs = <<>>
    /\ tmpdir = {}
    /\ handler = Idle
    /\ bc = NoBroadcast
    /\ cv = NoConversion
    /\ reply = NoReply
    /\ accepted = <<>>
    /\ rejected = <<>>
    /\ age = [u \in Users |-> AgeCap]
    /\ run = [u \in Users |-> <<>>]

NextBroadcast ==
    \/ \E u \in {ADMIN_ID, ADMIN_ID + 1}, has_args \in BOOLEAN : broadcast_command(u, has_args)
    \/ BroadcastStatusReturns
    \/ \E ok \in BOOLEAN : BroadcastSendReturns(ok)
    \/ BroadcastFinalReturns

SpecBroadcast == InitBroadcast /\ [][NextBroadcast]_vars

\* The commands, over the users tables of the users who send them: each has
\* no row, a row, or a row that is banned.
Callers == 1..MaxBanned

InitAdmin ==
    /\ \E known \in SUBSET Callers, banned \in SUBSET Callers :
          /\ banned \subseteq known
          /\ users_tbl = [u \in known |-> IF u \in banned THEN 1 ELSE 0]
    /\ conversions = <<>>
    /\ LOTTIE_AVAILABLE \in BOOLEAN
    /\ user_batches = <<>>
    /\ batches = <<>>
    /\ tasks = <<>>
    /\ msgs = <<>>
    /\ tmpdir = {}
    /\ handler = Idle
    /\ bc = NoBroadcast
    /\ cv = NoConversion
    /\ reply = NoReply
    /\ accepted = <<>>
    /\ rejected = <<>>
    /\ age = [u \in Users |-> AgeCap]
    /\ run = [u \in Users |-> <<>>]

NextAdmin ==
    \/ \E u \in Callers : start_command(u)
    \/ \E u \in Callers : stats_command(u)
    \/ \E u \in Callers, args \in Args : ban_command(u, args)
    \/ \E u \in Callers, args \in Args : unban_command(u, args)
    \/ \E u \in Callers, has_args \in BOOLEAN : broadcast_command(u, has_args)
    \/ BroadcastStatusReturns
    \/ \E ok \in BOOLEAN : BroadcastSendReturns(ok)
    \/ BroadcastFinalReturns

SpecAdmin == InitAdmin /\ [][NextAdmin]_vars

\* ---------------------------------------------------------------- the converter alone

\* The converter on one file, as _process_user_batch 590-607 calls it: the file
\* is validated and, when valid, converted.
ValidateFile ==
    /\ cv.stage = "input"
    /\ cv' = [cv EXCEPT !.stage = "validated", !.valid = validate_svg_file(cv.c)]
    /\ UNCHANGED <<users_tbl, conversions, LOTTIE_AVAILABLE, reply, batchVars, handler, bc,
                   histVars>>

ConvertFile ==
    /\ cv.stage = "validated"
    /\ cv.valid
    /\ cv' = [cv EXCEPT !.stage = "converted",
                        !.conv = convert_svg_to_tgs(LOTTIE_AVAILABLE, cv.c, cv.o)]
    /\ UNCHANGED <<users_tbl, conversions, LOTTIE_AVAILABLE, reply, batchVars, handler, bc,
                   histVars>>

InitConvert ==
    /\ users_tbl = [u \in Users |-> 0]
    /\ conversions = <<>>
    /\ LOTTIE_AVAILABLE \in BOOLEAN
    /\ user_batches = <<>>
    /\ batches = <<>>
    /\ tasks = <<>>
    /\ msgs = <<>>
    /\ tmpdir = {}
    /\ handler = Idle
    /\ bc = NoBroadcast
    /\ \E c \in Contents, o \in TierOutcomes :
          cv = [stage |-> "input", c |-> c, o |-> o, valid |-> FALSE,
                conv |-> [success |-> FALSE, tiers |-> <<>>, out |-> NoFile]]
    /\ reply = NoReply
    /\ accepted = <<>>
    /\ rejected = <<>>
    /\ age = [u \in Users |-> AgeCap]
    /\ run = [u \in Users |-> <<>>]

NextConvert ==
    \/ ValidateFile
    \/ ConvertFile

SpecConvert == InitConvert /\ [][NextConvert]_vars

\* ---------------------------------------------------------------- properties

\* The user has an entry in user_batches.
Pending(u) == u \in DOMAIN user_batches

\* The batch dict of the user's entry.
Entry(u) == batches[user_batches[u]]

\* Task t is in _process_user_batch, between taking the entry and the end of
\* the finally clause.
Flushing(t) == tasks[t].st = "flushing"

\* C1 (debounce correctness): the documents of a user that arrive within the
\* delay of one another are flushed by one flush, whose list is exactly those
\* documents in arrival order: every flush processes exactly the run of
\* documents that ended with the last arrival before it, and a run does not
\* stay unflushed past the delay.
DebounceCorrectness ==
    /\ \A t \in DOMAIN tasks :
          Flushing(t) => FilesOf(tasks[t]) = tasks[t].run_at_flush
    /\ \A u \in Users : Pending(u) => age[u] <= D

NoConcurrentFlushes ==
    \A t1, t2 \in DOMAIN tasks :
       (Flushing(t1) /\ Flushing(t2) /\ tasks[t1].user = tasks[t2].user) => t1 = t2

\* The batch dicts that hold document d, and how often each holds it.
Holders(d) == {b \in DOMAIN batches : d \in Range(batches[b].files)}
Occurrences(d, b) == Cardinality({k \in DOMAIN batches[b].files : batches[b].files[k] = d})

\* The flushes that took batch dict b, and the users whose entry it is.
TakersOf(b) == {t \in DOMAIN tasks : tasks[t].batch = b}
OwnersOf(b) == {u \in DOMAIN user_batches : user_batches[u] = b}

Live(t) == tasks[t].st = "sleeping"

\* C5 (timer cancel-and-reschedule): a user never has two live timers, the live
\* timer is the one the user's entry names, and a timer task that was cancelled
\* never takes another step: it starts no flush, whether or not its delay was
\* over when it was cancelled.
TimerCancelAndReschedule ==
    /\ [](\A t1, t2 \in DOMAIN tasks :
             (Live(t1) /\ Live(t2) /\ tasks[t1].user = tasks[t2].user) => t1 = t2)
    /\ [](\A t \in DOMAIN tasks :
             Live(t) => Pending(tasks[t].user) /\ Entry(tasks[t].user).timer_task = t)
    /\ [][\A t \in DOMAIN tasks :
             tasks[t].st = "cancelled" => tasks'[t] = tasks[t]]_vars

\* C5, its case: a timer was cancelled by a later submission when its delay
\* was already over, and the user's new timer is live.
TimerCancelAndRescheduleWitness ==
    \E t1, t2 \in DOMAIN tasks :
       /\ tasks[t1].st = "cancelled"
       /\ tasks[t1].rem = 0
       /\ tasks[t1].batch = None
       /\ Live(t2)
       /\ tasks[t2].user = tasks[t1].user

\* C6 (flush timing): a batch is flushed exactly D after its last accepted
\* arrival and never earlier: a flush begins when the last arrival is D old, a
\* live timer always has left what is missing to D since the last arrival (every
\* arrival restarts the full delay), and no batch waits longer than D.
FlushTiming ==
    /\ \A t \in DOMAIN tasks : Flushing(t) => tasks[t].age_at_flush = D
    /\ \A t \in DOMAIN tasks : Live(t) => tasks[t].rem + age[tasks[t].user] = D
    /\ \A u \in Users : Pending(u) => age[u] <= D

\* The calls of the flush that concern one document: getting and downloading
\* its file, and sending its output.
PerDocumentCalls == {"get_file", "download", "send"}

\* C10 (per-document error isolation): an error of a call that concerns one
\* document does not abort the batch: if such a call raised into the batch-wide
\* error path, after which nothing more is processed or sent, then no other
\* document was left unprocessed and no other converted output undelivered.
PerDocumentErrorIsolation ==
    \A t \in DOMAIN tasks :
       (Flushing(t) /\ tasks[t].pc = "edit_error"
                    /\ tasks[t].failed_at \in PerDocumentCalls) =>
          /\ tasks[t].i = Len(FilesOf(tasks[t]))
          /\ IF tasks[t].failed_at = "send"
             THEN tasks[t].j = Len(tasks[t].converted_files)
             ELSE tasks[t].converted_files = <<>>

\* What status_message has shown between the first status and the final tally.
IntermediateUpdates(b) == {k \in DOMAIN b.status : b.status[k].kind = "progress"}
FinalTallies(b) == {k \in DOMAIN b.status : b.status[k].kind = "complete"}

RunningStatusEveryTen ==
    bc.pc = "done" => Cardinality(IntermediateUpdates(bc)) = Len(bc.user_ids) \div 10

\* The last text a status message has shown.
LastText(m) == msgs[m][Len(msgs[m])]

\* C11 (validation skip): a document that fails validation is skipped, and the
\* flush goes on: it is never among the converted ones, the loop is never left
\* standing at it, and after the loop every document of the batch was taken,
\* the refused ones notwithstanding; what was converted is sent, and when
\* nothing was converted nothing is sent and the flush that ends from there
\* leaves "No files could be converted" as the last text of its status message.
ValidationSkip ==
    /\ [](\A t \in DOMAIN tasks :
             Flushing(t) =>
                LET r == tasks[t]
                    files == FilesOf(r)
                IN /\ Range(r.invalid) \cap Range(r.converted_files) = {}
                   /\ Range(r.invalid) \cup Range(r.converted_files)
                         \subseteq {files[k] : k \in 1..r.i}
                   /\ r.pc \in {"get_file", "download"} =>
                         files[r.i] \notin Range(r.invalid) \cup Range(r.converted_files)
                   /\ r.pc \in {"edit_done", "send", "edit_none"} => r.i = Len(files)
                   /\ r.pc = "send" => r.converted_files # <<>>
                   /\ r.pc = "edit_none" => r.converted_files = <<>> /\ r.j = 0)
    /\ [][\A t \in DOMAIN tasks :
             (Flushing(t) /\ tasks[t].pc = "edit_none" /\ tasks'[t].st = "done") =>
                /\ msgs'[tasks[t].progress_msg][Len(msgs'[tasks[t].progress_msg])] = "none"
                /\ conversions' = conversions]_vars

\* C11, its case: a flush in which validation refused a document is sending
\* the output of another one.
ValidationSkipWitness ==
    \E t \in DOMAIN tasks :
       /\ Flushing(t)
       /\ tasks[t].pc = "send"
       /\ tasks[t].invalid # <<>>
       /\ tasks[t].converted_files # <<>>

\* C12 (cleanup invariant): the temporary files of a document are released by
\* the time its flush ends, on every branch: a temporary file exists only while
\* a flush that holds its document is running.
CleanupInvariant ==
    \A f \in tmpdir :
       \E t \in DOMAIN tasks : Flushing(t) /\ f.doc \in Range(FilesOf(tasks[t]))

\* C13: two-tier conversion order.  convert tries the primary tier first when it
\* is available and succeeds through it only if it raised no error and left an
\* output with content; in every other case (primary unavailable, raised,
\* output missing or empty) the fallback runs exactly once, after the primary
\* if that ran, and its result is the outcome: the primary's failure is never
\* the outcome, and convert fails only when the fallback fails.
TwoTierOrder ==
    cv.stage = "converted" =>
        LET r == cv.conv
            primary_ok == LOTTIE_AVAILABLE /\ cv.o.primary = "ok"
            fallback == _create_fallback_tgs(cv.c, cv.o)
        IN  /\ r.tiers # <<>>
            /\ LOTTIE_AVAILABLE <=> r.tiers[1] = "primary"
            /\ Cardinality({k \in 1..Len(r.tiers) : r.tiers[k] = "primary"}) <= 1
            /\ Cardinality({k \in 1..Len(r.tiers) : r.tiers[k] = "fallback"}) <= 1
            /\ primary_ok => r.tiers = <<"primary">> /\ r.success /\ r.out.kind = "gzip"
            /\ ~primary_ok =>
                  /\ r.tiers[Len(r.tiers)] = "fallback"
                  /\ r.success = fallback.success
                  /\ r.out = fallback.out
            /\ ~r.success => r.tiers[Len(r.tiers)] = "fallback" /\ ~fallback.success

\* C13, its case: the primary tier ran and left an empty output, and the
\* fallback, run after it, succeeded.
TwoTierOrderWitness ==
    /\ cv.stage = "converted"
    /\ LOTTIE_AVAILABLE
    /\ cv.o.primary = "empty"
    /\ cv.conv.tiers = <<"primary", "fallback">>
    /\ cv.conv.success

\* The decompressed documents the fallback can produce, over every readable input.
FallbackPayloads ==
    {Decompress(_create_fallback_tgs(c, o).out) :
        c \in {x \in Contents : x.readable}, o \in {y \in TierOutcomes : y.fallback = "ok"}}

\* C14: fallback determinism.  The payload of the fallback tier does not depend
\* on the content of the input: whatever readable input it is run on, the
\* decompressed JSON document is the one it produced here, and that document has
\* w = 512, h = 512, fr = 30, ip = 0, op = 30 and exactly one layer.
FallbackDeterminism ==
    (/\ cv.stage = "converted"
     /\ cv.conv.tiers[Len(cv.conv.tiers)] = "fallback"
     /\ cv.conv.success) =>
        LET doc == Decompress(cv.conv.out)
        IN  /\ doc.w = 512 /\ doc.h = 512
            /\ doc.fr = 30 /\ doc.ip = 0 /\ doc.op = 30
            /\ Len(doc.layers) = 1
            /\ FallbackPayloads = {doc}

\* C14, its case: without the lottie package, a valid file was converted by
\* the fallback alone.
FallbackDeterminismWitness ==
    /\ cv.stage = "converted"
    /\ ~LOTTIE_AVAILABLE
    /\ cv.c.body = "square"
    /\ cv.conv.tiers = <<"fallback">>
    /\ cv.conv.success
    /\ Decompress(cv.conv.out) = lottie_data

\* The batch dicts that have message m as their progress_msg.
BatchesOf(m) == {b \in DOMAIN batches : batches[b].progress_msg = m}

\* The handler is in its await of the "Please wait..." reply for batch dict b.
AwaitingReplyFor(b) ==
    /\ handler.pc = "reply_wait"
    /\ handler.user \in DOMAIN user_batches
    /\ user_batches[handler.user] = b

\* C15: single status handle.  For every batch exactly one status message is
\* created, the "Please wait..." message of its first document: every batch
\* whose first document has been handled has a status message, every status
\* message is the one of exactly one batch (a later document of the batch and
\* an update of the flush create none), and the flush of a batch edits the
\* message of that batch.
SingleStatusHandle ==
    /\ \A b \in DOMAIN batches : ~AwaitingReplyFor(b) => batches[b].progress_msg # None
    /\ \A m \in DOMAIN msgs : msgs[m][1] = "wait" /\ Cardinality(BatchesOf(m)) = 1
    /\ \A b \in DOMAIN batches : batches[b].progress_msg \in DOMAIN msgs \cup {None}
    /\ \A t \in DOMAIN tasks :
          Flushing(t) => tasks[t].progress_msg = batches[tasks[t].batch].progress_msg

\* The texts written to the status message of batch dict b after "Please wait...".
StatusUpdates(b) == SubSeq(msgs[batches[b].progress_msg], 2, Len(msgs[batches[b].progress_msg]))

\* C16: batch size 1 suppression.  The status message of a batch of exactly one
\* document goes from "Please wait..." to one terminal status only, done or a
\* failure text: no other update is written to it.
SingleDocumentStatus ==
    \A b \in DOMAIN batches :
        (Len(batches[b].files) = 1 /\ batches[b].progress_msg # None) =>
            /\ Len(StatusUpdates(b)) <= 1
            /\ Range(StatusUpdates(b)) \subseteq {"done", "none", "error"}

\* The flush of task t ends in this step.
FlushEnds(t) == Flushing(t) /\ tasks'[t].st # "flushing"

\* This step records the event <<u, k>> and no other.
Records(u, k) == conversions' = Append(conversions, <<u, k>>)

\* C17: conversion logging.  A flush that converted and delivered k >= 1
\* documents records exactly one conversion event, (user, k), and a flush that
\* converted or delivered none records no event; nothing else records one.
\* A flush that ends on the return of a send has delivered all its outputs; one
\* that ends because send number j raised has delivered j - 1.
ConversionLogging ==
    [][/\ \A t \in DOMAIN tasks : FlushEnds(t) =>
             LET r == tasks[t]
                 sent == IF r.failed_at = "send" THEN r.j - 1 ELSE 0
             IN  CASE r.pc = "send" ->
                        \/ Records(r.user, Len(r.converted_files))
                        \/ r.j > 1 /\ Records(r.user, r.j - 1)
                        \/ r.j = 1 /\ conversions' = conversions
                   [] r.pc = "edit_error" ->
                        IF sent >= 1 THEN Records(r.user, sent)
                        ELSE conversions' = conversions
                   [] OTHER -> conversions' = conversions
       /\ conversions' # conversions => \E t \in DOMAIN tasks : FlushEnds(t)]_vars

\* C18: admin gating.  When stats, ban, unban or broadcast is invoked by a user
\* other than the admin, the only effect is the fixed rejection reply: the ban
\* state of every user is unchanged, no broadcast is started, so no message is
\* sent to any recipient, and the reply holds no statistics.
AdminGating ==
    [][\A u \in Callers \ {ADMIN_ID} :
          (\/ stats_command(u)
           \/ \E args \in Args : ban_command(u, args) \/ unban_command(u, args)
           \/ \E has_args \in BOOLEAN : broadcast_command(u, has_args)) =>
             /\ reply'.to = u
             /\ reply'.text = "admin_required"
             /\ reply'.numbers = <<>>
             /\ UNCHANGED <<users_tbl, conversions, batchVars, handler, bc>>]_vars

\* C18, its case: a user who is not the admin was refused /ban while the user
\* named in it has a row that is not banned.
AdminGatingWitness ==
    /\ reply.to # ADMIN_ID
    /\ reply.cmd = "ban"
    /\ reply.text = "admin_required"
    /\ \E u \in DOMAIN users_tbl : users_tbl[u] = 0
    /\ bc.pc = "idle"

\* The known users that are not banned.
NotBanned == {u \in DOMAIN users_tbl : users_tbl[u] = 0}

\* A broadcast is running: dispatched, and its final status not yet shown.
BroadcastRunning == bc.pc \in {"status", "send", "final"}

DocumentsOf(u) == {d \in DOMAIN accepted : accepted[d] = u}
TakenBy(flushes) ==
    UNION {Range(batches[tasks[t].batch].files) : t \in {x \in flushes : tasks[x].batch # None}}

\* The flushes of user u that have begun (they took an entry), and those of
\* them that are over.
FlushesBegun(u) == {t \in DOMAIN tasks : tasks[t].user = u /\ tasks[t].batch # None}
FlushesCompleted(u) == {t \in FlushesBegun(u) : ~Flushing(t)}

\* The documents of u that arrived after every document that a flush of u in
\* `flushes` has taken: documents are numbered in the order of arrival.
ArrivedSince(u, flushes) ==
    {d \in DOMAIN accepted : accepted[d] = u /\ \A e \in TakenBy(flushes) : d > e}

\* The batch dicts of user u that no flush has taken.
Untaken(u) ==
    {b \in DOMAIN batches : TakersOf(b) = {} /\ Range(batches[b].files) \cap DocumentsOf(u) # {}}

\* C20 as stated: a user has an entry if and only if a document of that user
\* has arrived since that user's last flush completed; a user has one entry at
\* most, and an entry never holds an empty list.
BatchExistenceSinceCompleted ==
    \A u \in Users :
       /\ Pending(u) <=> ArrivedSince(u, FlushesCompleted(u)) # {}
       /\ Cardinality(Untaken(u)) <= 1
       /\ Pending(u) => Entry(u).files # <<>>

\* C20, amended: a user has an entry if and only if a document of that user
\* has arrived since that user's last flush began, and the entry holds exactly
\* those documents; a user has one entry at most, and an entry never holds an
\* empty list.
BatchExistenceSinceBegan ==
    \A u \in Users :
       LET since == ArrivedSince(u, FlushesBegun(u))
       IN  /\ Pending(u) <=> since # {}
           /\ Cardinality(Untaken(u)) <= 1
           /\ Pending(u) =>
                 /\ Range(Entry(u).files) = since
                 /\ Untaken(u) = {user_batches[u]}
                 /\ Entry(u).files # <<>>

\* C20, its case: a user has an entry for a document that arrived while a
\* flush of that user is running.
BatchExistenceSinceBeganWitness ==
    \E u \in Users :
       /\ Pending(u)
       /\ \E t \in FlushesBegun(u) : Flushing(t)
       /\ ArrivedSince(u, FlushesBegun(u)) # {}

\* The timer tasks that the entries of the map name.
EntryTimers == {Entry(u).timer_task : u \in DOMAIN user_batches} \ {None}

\* C21: a flush is not cancellable.  The timer task that a submission cancels is
\* the one its entry names, and that is never a task that has begun its flush:
\* no flush is ever asked to cancel, the only tasks that become cancelled are
\* tasks waiting out their delay, and a flush that has begun goes on until it
\* is done, never to a cancelled end.
FlushNotCancellable ==
    /\ [](\A t \in DOMAIN tasks :
             Flushing(t) => ~tasks[t].must_cancel /\ t \notin EntryTimers)
    /\ [][\A t \in DOMAIN tasks :
             /\ Flushing(t) => tasks'[t].st \in {"flushing", "done"}
             /\ (tasks[t].st # "cancelled" /\ tasks'[t].st = "cancelled") =>
                   tasks[t].st = "sleeping"]_vars

\* C21, its case: the user has submitted again, and has a new entry with its
\* timer, while a begun flush of that user is delivering.
FlushNotCancellableWitness ==
    \E t \in DOMAIN tasks :
       /\ Flushing(t)
       /\ tasks[t].pc = "send"
       /\ Pending(tasks[t].user)
       /\ Entry(tasks[t].user).timer_task \notin {None, t}

\* C22: submission-time rejection changes nothing.  A submission of a banned
\* sender, of a document neither named *.svg nor typed image/svg+xml, or of a
\* declared size over 5 MiB leaves the accumulator as it was: no batch is made
\* or appended to, no status message is made, no timer is cancelled or
\* started, and every live timer has the delay left that it had, so a pending
\* batch flushes when it would have.
RejectionChangesNothing ==
    [][\A u \in Users, document \in Documents :
          (/\ \/ is_banned(users_tbl, u)
              \/ ~(document.svg_name \/ document.svg_mime)
              \/ document.file_size > 5 * 1024 * 1024
           /\ handle_document(u, document)) =>
             /\ UNCHANGED <<user_batches, batches, tasks, msgs, tmpdir, handler>>
             /\ UNCHANGED <<accepted, age, run>>
             /\ \A t \in DOMAIN tasks : Live(t) => Live(t)' /\ tasks'[t].rem = tasks[t].rem]_vars

\* C22, its case: a user's submission was refused while the user's batch of
\* one document was pending, and the timer of that batch has run its whole
\* delay.
RejectionChangesNothingWitness ==
    \E u \in Users, t \in DOMAIN tasks :
       /\ accepted = <<u>>
       /\ rejected = <<<<u, 1>>>>
       /\ Pending(u)
       /\ Entry(u).timer_task = t
       /\ Live(t)
       /\ tasks[t].rem = 0
       /\ age[u] = D

\* C23: ban persistence.  The ban state of a user changes only through ban and
\* unban: a step that changes is_banned(u) is the admin's /ban or /unban of u,
\* so a banned user stays banned across every other operation.
BanPersistence ==
    [][\A u \in Callers :
          is_banned(users_tbl, u) # is_banned(users_tbl', u) =>
             \E args \in Args :
                /\ args # <<>> /\ IsDecimal(args[1]) /\ int(args[1]) = u
                /\ \/ ~is_banned(users_tbl, u) /\ ban_command(ADMIN_ID, args)
                   \/ is_banned(users_tbl, u) /\ unban_command(ADMIN_ID, args)]_vars

\* A submission handler of user u is executing: it is in its await.
HandlerOf(u) == handler.pc = "reply_wait" /\ handler.user = u

\* C24: no stranded batch.  Whenever a user has an entry and no submission
\* handler of that user is executing, the entry names a timer task and that
\* task is live: it is waiting out its delay and will flush the entry.
NoStrandedBatch ==
    \A u \in Users :
       (Pending(u) /\ ~HandlerOf(u)) =>
          /\ Entry(u).timer_task \in DOMAIN tasks
          /\ Live(Entry(u).timer_task)
          /\ tasks[Entry(u).timer_task].user = u

\* C25: the final status agrees with the outcome.  When a flush that has a
\* status message ends, the last text written to the message is "done" if and
\* only if the flush converted at least one document and delivered every
\* converted output: "done" is never the final status of a flush that did not
\* deliver.  A flush with a status message ends on the return of a send only
\* when that send was the last one and returned.
FinalStatusAgrees ==
    [][\A t \in DOMAIN tasks :
          (FlushEnds(t) /\ tasks[t].progress_msg # None) =>
             LET r == tasks[t]
                 final == msgs'[r.progress_msg][Len(msgs'[r.progress_msg])]
                 delivered == /\ r.pc = "send"
                              /\ r.converted_files # <<>>
                              /\ r.j = Len(r.converted_files)
             IN  final = "done" <=> delivered]_vars
====
